---- MODULE Spec2Model ----
(***************************************************************************)
(* pyslash: the slash-command registry (patcher._CommandsProcessor), the   *)
(* command node (slash_command.SlashCommand), the interaction router       *)
(* (patcher._CommandsPatcher) and the reply channel                        *)
(* (slash_command.CommandsContext), as a state machine.                    *)
(***************************************************************************)
EXTENDS Integers, Sequences, FiniteSets, TLC

VARIABLES
    bot,              \* the host bot: _checks, _check_once and the cogs
    commands,         \* _CommandsProcessor.commands: dict name -> SlashCommand
    commands_checks,  \* handler.__commands_checks__, per handler function
    raised,           \* exception the last registry or context operation ended with
    lastLoad,         \* history: per name, the item of the last successful load
    lastOp,           \* history: what the last such operation was given
    app,              \* the application: declared checks, converter behaviour, signature
    gateway,          \* the messages the socket may deliver: first, later
    nevents,          \* messages delivered so far
    event,            \* the message on_socket_response was last called with
    pc,               \* "idle", or "handler" while a handler is running
    ctxs,             \* the CommandsContext objects made for the event
    replies,          \* the reply calls made on them, in order
    log               \* what routing the event did

regVars == <<commands, commands_checks, raised, lastLoad, lastOp>>

dispVars == <<nevents, event, pc, ctxs, replies, log>>

vars == <<bot, commands, commands_checks, raised, lastLoad, lastOp,
          app, gateway, nevents, event, pc, ctxs, replies, log>>

-----------------------------------------------------------------------------
(* Bounds of the model.                                                    *)

MaxNodes == 4       \* objects (handlers and containers) in one definition
MaxAttrs == 2       \* tagged attributes of one container
MaxReplies == 3     \* reply calls on one context held by a handler
MaxHookReplies == 1 \* reply calls per context while an event is routed
MaxChecks == 2      \* checks declared on one handler
MaxOptions == 2     \* options in one options list of a payload
MaxEvents == 2      \* messages the socket delivers
MaxMembers == 2     \* tagged members of one cog
MaxCogOps == 2      \* calls of add_cog and remove_cog
MaxReinvokes == 2   \* calls of reinvoke

-----------------------------------------------------------------------------
(* Values.                                                                 *)

Names == {"a", "b", "c"}             \* top-level slash names
DeepName == "a"
SubNames == <<"x", "y", "z", "w">>   \* slash names of tagged attributes, by position
NoHandler == "NoHandler"     \* SlashCommand.handler is None
NoError == "none"
Empty == "inspect.empty"     \* inspect.Parameter.empty
\* No definition: the history's value for a name nothing is loaded under.
NoItem == [async |-> FALSE, slash |-> "", fn |-> "NoItem", sig |-> <<>>, attrs |-> <<>>]

Range(s) == {s[i] : i \in DOMAIN s}

Reverse(s) == [i \in 1..Len(s) |-> s[Len(s) + 1 - i]]

\* An authorization check: a callable, coroutine function or not, with the
\* value it returns for the interaction at hand.
Check(id, co, ret) == [id |-> id, co |-> co, ret |-> ret]

\* A parameter of a handler's signature.
Param(name, ann, default) == [name |-> name, ann |-> ann, default |-> default]

CtxParam == Param("ctx", Empty, Empty)

\* A decorated object: a coroutine function (a handler, with its signature)
\* or any other object, scanned for attributes tagged with _slash. attrs are
\* the tagged attributes in __dir__() order.
Handler(slash, fn, sig) ==
    [async |-> TRUE, slash |-> slash, fn |-> fn, sig |-> sig, attrs |-> <<>>]

Container(slash, attrs) ==
    [async |-> FALSE, slash |-> slash, fn |-> NoHandler, sig |-> <<>>, attrs |-> attrs]

-----------------------------------------------------------------------------
(* slash_command.py: the argument converter registry.                      *)

\* _arg_types: annotation -> (platform type id, converter function).
arg_types ==
    [str             |-> [arg_type |-> 3, func |-> "_nothing_converter"],
     int             |-> [arg_type |-> 4, func |-> "_nothing_converter"],
     bool            |-> [arg_type |-> 5, func |-> "_nothing_converter"],
     User            |-> [arg_type |-> 6, func |-> "_user_converter"],
     Member          |-> [arg_type |-> 6, func |-> "_member_converter"],
     TextChannel     |-> [arg_type |-> 7, func |-> "_text_channel_converter"],
     CategoryChannel |-> [arg_type |-> 7, func |-> "_category_channel_converter"],
     Role            |-> [arg_type |-> 8, func |-> "_role_converter"],
     Object          |-> [arg_type |-> 9, func |-> "_mentionable_converter"]]

\* Annotations with a convert attribute (discord.ext.commands converters).
CustomTypes == {"Custom"}

TypeErrorResult == [ok |-> FALSE, err |-> "TypeError"]

\* The typing annotations of this model with their __args__. The
\* __origin__ of each, Optional[T] included, is typing.Union.
UnionArgs ==
    ("Optional[int]" :> <<"int", "NoneType">>)
    @@ ("Union[int, str]" :> <<"int", "str">>)
    @@ ("Optional[Object]" :> <<"Object", "NoneType">>)

\* _get_converter_function for the annotations of this model: a type of
\* _arg_types, a typing annotation, commands.Greedy, a type with a convert
\* attribute, or any other type (typing.Union itself is one). In the loop
\* over __args__ no arg is an instance of NoneType, discord.Object is
\* skipped, and for any other arg the function is called on x, the origin.
RECURSIVE get_converter_function(_)
get_converter_function(converter_type) ==
    IF converter_type \in DOMAIN arg_types
    THEN [ok |-> TRUE, err |-> NoError,
          func |-> arg_types[converter_type].func,
          arg_type |-> arg_types[converter_type].arg_type,
          required |-> TRUE]
    ELSE IF converter_type \in DOMAIN UnionArgs
    THEN IF \E i \in DOMAIN UnionArgs[converter_type] :
                UnionArgs[converter_type][i] # "Object"
         THEN get_converter_function("typing.Union")
         ELSE TypeErrorResult          \* No converters in union.
    ELSE IF converter_type = "Greedy" THEN TypeErrorResult
    ELSE IF converter_type \in CustomTypes
    THEN [ok |-> TRUE, err |-> NoError, func |-> "compat_layer",
          arg_type |-> 3, required |-> TRUE]
    ELSE TypeErrorResult

-----------------------------------------------------------------------------
(* slash_command.py: SlashCommand construction.                            *)

\* SlashCommand._process_args on the handler's signature. cells[i] holds the
\* values the loop's locals required, param and converter_function had in
\* iteration i; args is the list published to the platform.
process_args(sig) ==
    IF Len(sig) = 0 THEN TypeErrorResult
    ELSE IF sig[1].ann \notin {Empty, "Context", "CommandsContext"}
    THEN TypeErrorResult
    ELSE
      LET ps == Tail(sig)
          conv(i) == get_converter_function(
                        IF ps[i].ann = Empty THEN "str" ELSE ps[i].ann)
          req(i) == IF ps[i].default = Empty THEN conv(i).required ELSE FALSE
      IN  IF \E i \in DOMAIN ps : ~conv(i).ok THEN TypeErrorResult
          ELSE [ok |-> TRUE, err |-> NoError,
                cells |-> [i \in DOMAIN ps |->
                             [required |-> req(i),
                              default |-> ps[i].default,
                              converter_function |-> conv(i).func]],
                args |-> [i \in DOMAIN ps |->
                             [type |-> conv(i).arg_type,
                              name |-> ps[i].name,
                              required |-> req(i)]]]

\* SlashCommand._get_checks: the bot's checks, its check-once checks, then
\* the handler's list, which x.reverse() reverses in place. Each check that
\* is not a coroutine function is replaced by a wrapper.
get_checks(handler, cc) ==
    LET own == IF handler = NoHandler THEN <<>> ELSE Reverse(cc[handler])
        all == bot.checks \o bot.check_once \o own
    IN  [checks |-> [i \in DOMAIN all |->
                        [wrapped |-> ~all[i].co, fn |-> all[i]]],
         listed |-> all,
         cc |-> IF handler = NoHandler THEN cc
                ELSE [cc EXCEPT ![handler] = own]]

\* SlashCommand.__init__.
SlashCommand(name, item, cc) ==
    LET pa == IF item.async THEN process_args(item.sig)
              ELSE [ok |-> TRUE, err |-> NoError, cells |-> <<>>, args |-> <<>>]
    IN  IF ~pa.ok THEN [ok |-> FALSE, err |-> pa.err, cc |-> cc]
        ELSE LET gc == get_checks(item.fn, cc)
             IN  [ok |-> TRUE, err |-> NoError, cc |-> gc.cc,
                  node |-> [name |-> name,
                            handler |-> item.fn,
                            args |-> pa.args,
                            cells |-> pa.cells,
                            children |-> <<>>,
                            checks |-> gc.checks,
                            listed |-> gc.listed]]

\* SlashCommand._add_child.
add_child(node, child) ==
    IF node.handler # NoHandler
    THEN [ok |-> FALSE, err |-> "RecursionError"]
    ELSE [ok |-> TRUE, err |-> NoError,
          node |-> [node EXCEPT !.children = (child.name :> child) @@ @]]

-----------------------------------------------------------------------------
(* patcher.py: _CommandsProcessor.                                         *)

RECURSIVE create_command(_, _, _, _)
RECURSIVE create_children(_, _, _, _, _)

\* The loop of _create_command over the tagged attributes, from attribute k.
create_children(node, attrs, k, nested, cc) ==
    IF k > Len(attrs) THEN [ok |-> TRUE, err |-> NoError, cc |-> cc, node |-> node]
    ELSE LET sub == create_command(attrs[k].slash, attrs[k], nested + 1, cc)
         IN  IF ~sub.ok THEN sub
             ELSE LET added == add_child(node, sub.node)
                  IN  IF ~added.ok
                      THEN [ok |-> FALSE, err |-> added.err, cc |-> sub.cc]
                      ELSE create_children(added.node, attrs, k + 1, nested, sub.cc)

\* Variant of _create_command that accepts a container without children.
create_command_childless(name, item, nested, cc) ==
    IF ~item.async /\ nested > 1
    THEN [ok |-> FALSE, err |-> "RecursionError", cc |-> cc]
    ELSE LET made == SlashCommand(name, item, cc)
         IN  IF ~made.ok \/ item.async THEN made
             ELSE create_children(made.node, item.attrs, 1, nested, made.cc)

\* Variant of _create_command that allows one more level of nesting.
create_command_deeper(name, item, nested, cc) ==
    IF ~item.async /\ nested > 2
    THEN [ok |-> FALSE, err |-> "RecursionError", cc |-> cc]
    ELSE LET made == SlashCommand(name, item, cc)
         IN  IF ~made.ok \/ item.async THEN made
             ELSE LET grown == create_children(made.node, item.attrs, 1, nested, made.cc)
                  IN  IF ~grown.ok THEN grown
                      ELSE IF DOMAIN grown.node.children = {}
                      THEN [ok |-> FALSE, err |-> "TypeError", cc |-> grown.cc]
                      ELSE grown

\* _CommandsProcessor._create_command.
create_command(name, item, nested, cc) ==
    IF ~item.async /\ nested > 1
    THEN [ok |-> FALSE, err |-> "RecursionError", cc |-> cc]
    ELSE LET made == SlashCommand(name, item, cc)
         IN  IF ~made.ok \/ item.async THEN made
             ELSE LET grown == create_children(made.node, item.attrs, 1, nested, made.cc)
                  IN  IF ~grown.ok THEN grown
                      ELSE IF DOMAIN grown.node.children = {}
                      THEN [ok |-> FALSE, err |-> "TypeError", cc |-> grown.cc]
                      ELSE grown

\* Variant of load_command that keeps an entry already stored under the name.
load_command_keep(item) ==
    LET built == create_command(item.slash, item, 0, commands_checks)
    IN  [commands |-> IF built.ok
                      THEN commands @@ (item.slash :> built.node)
                      ELSE commands,
         cc |-> built.cc,
         raised |-> built.err,
         ok |-> built.ok]

\* _CommandsProcessor.load_command: the registry after loading item.
load_command(item) ==
    LET built == create_command(item.slash, item, 0, commands_checks)
    IN  [commands |-> IF built.ok
                      THEN (item.slash :> built.node) @@ commands
                      ELSE commands,
         cc |-> built.cc,
         raised |-> built.err,
         ok |-> built.ok]

\* _CommandsProcessor.unload_command: del self.commands[name].
unload_command(name) ==
    IF name \in DOMAIN commands
    THEN [commands |-> [n \in DOMAIN commands \ {name} |-> commands[n]],
          raised |-> NoError]
    ELSE [commands |-> commands, raised |-> "KeyError"]

-----------------------------------------------------------------------------
(* slash_command.py: CommandsContext and the reply channel.                *)

\* CommandsContext.__init__: a context for the interaction, made for the
\* handler ("exec"), for a converter by compat_layer ("conv") or for the
\* command_error event ("error").
CommandsContext(role) ==
    [role |-> role, first_reply |-> TRUE, ephemeral |-> FALSE]

\* CommandsContext.reply up to its await: the request the call issues. A
\* secondary reply goes to Context.reply, a message send.
reply_request(ctx, content) ==
    IF ~ctx.first_reply
    THEN [req |-> "followup", type |-> 0, flags |-> 0, content |-> content]
    ELSE [req |-> "callback", type |-> 4,
          flags |-> IF ctx.ephemeral THEN 64 ELSE 0,
          content |-> content]

\* Variant of the end of reply that leaves _first_reply set.
reply_done_keep(ctx, req, ok) == ctx

\* CommandsContext.reply after its await: a request that failed raises out
\* of reply; after the callback request succeeded, _first_reply is cleared.
reply_done(ctx, req, ok) ==
    IF ok /\ req = "callback" THEN [ctx EXCEPT !.first_reply = FALSE] ELSE ctx

\* One reply call: its context, the request it issued, whether another
\* call on the context was suspended when it started, and how it ended.
ReplyCall(c, ctx, content, overlap, st) ==
    reply_request(ctx, content) @@ [ctx |-> c, overlap |-> overlap, st |-> st]

-----------------------------------------------------------------------------
(* slash_command.py: the converters and SlashCommand.execute.              *)

NoValue == "None"       \* option.get("value") is None

Value(kind, v) == [kind |-> kind, v |-> v]

Error(type, command) == [type |-> type, command |-> command]

NoErr == Error(NoError, "")

Fail(type) == [ok |-> FALSE, err |-> Error(type, "")]

\* The converter functions of _arg_types on a raw value, against the
\* event's resolved table and guild.
convert(func, arg, d) ==
    CASE func = "_nothing_converter" ->
            [ok |-> TRUE, value |-> Value("raw", arg)]
      [] func = "_user_converter" ->
            IF arg \in d.resolved.users
            THEN [ok |-> TRUE, value |-> Value("User", arg)]
            ELSE Fail("BadArgument")
      [] func = "_member_converter" ->
            IF arg \notin d.resolved.members THEN Fail("BadArgument")
            ELSE IF arg \notin d.resolved.users THEN Fail("KeyError")
            ELSE [ok |-> TRUE, value |-> Value("Member", arg)]
      [] func = "_text_channel_converter" ->
            IF arg \notin DOMAIN d.resolved.channels
               \/ ~d.resolved.channels[arg].same_guild
            THEN Fail("BadArgument")
            ELSE IF d.resolved.channels[arg].type # 0 THEN Fail("BadArgument")
            ELSE [ok |-> TRUE, value |-> Value("TextChannel", arg)]
      [] func = "_category_channel_converter" ->
            IF arg \notin DOMAIN d.resolved.channels
               \/ ~d.resolved.channels[arg].same_guild
            THEN Fail("BadArgument")
            ELSE IF d.resolved.channels[arg].type # 4 THEN Fail("BadArgument")
            ELSE [ok |-> TRUE, value |-> Value("CategoryChannel", arg)]
      [] func = "_role_converter" ->
            IF arg \notin d.resolved.roles THEN Fail("KeyError")
            ELSE [ok |-> TRUE, value |-> Value("Role", arg)]
      [] func = "_mentionable_converter" ->
            [ok |-> TRUE, value |-> Value("Object", arg)]

\* compat_layer: a new CommandsContext for the type's own convert, which
\* (as custom tells) may reply on that context and may raise BadArgument.
compat_layer(arg, custom, c) ==
    LET ctx == CommandsContext("conv")
        call == ReplyCall(c, ctx, "hi", FALSE, "ok")
    IN  [ok |-> ~custom.raises,
         err |-> IF custom.raises THEN Error("BadArgument", "") ELSE NoErr,
         value |-> Value("Custom", arg),
         ctx |-> IF custom.replies THEN reply_done(ctx, call.req, TRUE) ELSE ctx,
         replies |-> IF custom.replies THEN <<call>> ELSE <<>>]

\* The locals of _process_args that conversion_entrypoint number index
\* reads when it runs: required, param and converter_function are variables
\* of the one _process_args call, so every entrypoint sees the values the
\* loop left in them.
closure(node, index) == node.cells[Len(node.cells)]

\* The free variable c of the wrapper _get_checks made for check number
\* index: the loop variable of the one _get_checks call.
wrapper_c(node, index) == node.listed[Len(node.listed)]

\* await check(ctx) for check number index of the node.
call_check(node, index) ==
    IF ~node.checks[index].wrapped
    THEN [called |-> <<node.checks[index].fn.id>>,
          truthy |-> node.checks[index].fn.ret]
    ELSE LET c == wrapper_c(node, index)
         IN  IF c.co
             THEN [called |-> <<>>, truthy |-> TRUE]   \* c(ctx): a coroutine object
             ELSE [called |-> <<c.id>>, truthy |-> c.ret]

\* The loop of execute over self.checks, from check number index.
RECURSIVE run_checks(_, _, _)
run_checks(node, index, seen) ==
    IF index > Len(node.checks) THEN [ok |-> TRUE, log |-> seen]
    ELSE LET r == call_check(node, index)
         IN  IF ~r.truthy THEN [ok |-> FALSE, log |-> seen \o r.called]
             ELSE run_checks(node, index + 1, seen \o r.called)

\* conversion_entrypoint number index on one option of the payload. st is
\* the conversion so far: contexts, reply calls, values, and in convLog
\* which converter each entrypoint ran.
conversion_entrypoint(node, index, option, d, custom, st) ==
    LET cell == closure(node, index)
        arg == option.value
    IN  IF arg = NoValue
        THEN IF cell.required
             THEN [st EXCEPT !.ok = FALSE, !.err = Error("BadArgument", "")]
             ELSE [st EXCEPT !.args = Append(@,
                      IF cell.default = Empty THEN Value("None", "")
                      ELSE Value("default", cell.default))]
        ELSE IF cell.converter_function = "compat_layer"
        THEN LET r == compat_layer(arg, custom, Len(st.ctxs) + 1)
             IN  [ok |-> r.ok, err |-> r.err,
                  ctxs |-> Append(st.ctxs, r.ctx),
                  replies |-> st.replies \o r.replies,
                  convLog |-> Append(st.convLog,
                               [index |-> index, func |-> "compat_layer"]),
                  args |-> IF r.ok THEN Append(st.args, r.value) ELSE st.args]
        ELSE LET r == convert(cell.converter_function, arg, d)
             IN  [st EXCEPT !.ok = r.ok,
                            !.err = IF r.ok THEN NoErr ELSE r.err,
                            !.convLog = Append(@, [index |-> index,
                                                   func |-> cell.converter_function]),
                            !.args = IF r.ok THEN Append(@, r.value) ELSE @]

\* The loop of execute over self._processors, from processor number index.
RECURSIVE convert_args(_, _, _, _, _, _)
convert_args(node, index, params, d, custom, st) ==
    IF index > Len(node.cells) \/ ~st.ok THEN st
    ELSE IF index > Len(params)
    THEN [st EXCEPT !.ok = FALSE, !.err = Error("IndexError", "")]
    ELSE convert_args(node, index + 1, params, d, custom,
                      conversion_entrypoint(node, index, params[index], d, custom, st))

\* No node: the routing did not reach a node with a handler.
NoNode ==
    [name |-> "", handler |-> NoHandler, args |-> <<>>, cells |-> <<>>,
     children |-> <<>>, checks |-> <<>>, listed |-> <<>>]

\* An outcome of execute that raised.
Raised(err, leaf, made, calls, checkLog, convLog) ==
    [outcome |-> "raise", err |-> err, ctxs |-> made, replies |-> calls,
     checkLog |-> checkLog, convLog |-> convLog, args |-> <<>>, leaf |-> leaf]

\* SlashCommand.execute up to the call of the handler. opts is the options
\* list of ctx_data, with whether the key is there at all.
RECURSIVE execute(_, _, _, _)
execute(node, opts, d, custom) ==
    IF node.handler = NoHandler
    THEN IF ~opts.has THEN Raised(Error("KeyError", ""), NoNode, <<>>, <<>>, <<>>, <<>>)
         ELSE IF Len(opts.list) # 1
         THEN Raised(Error("BadArgument", ""), NoNode, <<>>, <<>>, <<>>, <<>>)
         ELSE IF opts.list[1].type \notin {1, 2}
         THEN Raised(Error("BadArgument", ""), NoNode, <<>>, <<>>, <<>>, <<>>)
         ELSE IF opts.list[1].name \notin DOMAIN node.children
         THEN Raised(Error("BadArgument", ""), NoNode, <<>>, <<>>, <<>>, <<>>)
         ELSE IF ~opts.list[1].has_options
         THEN Raised(Error("KeyError", ""), NoNode, <<>>, <<>>, <<>>, <<>>)
         ELSE execute(node.children[opts.list[1].name],
                      [has |-> TRUE, list |-> opts.list[1].options], d, custom)
    ELSE IF ~d.guild_id        \* CommandsContext: ctx_data["guild_id"]
    THEN Raised(Error("KeyError", ""), node, <<>>, <<>>, <<>>, <<>>)
    ELSE LET own == <<CommandsContext("exec")>>
             checked == run_checks(node, 1, <<>>)
         IN  IF ~checked.ok
             THEN Raised(Error("CheckFailure", node.name), node, own, <<>>, checked.log, <<>>)
             ELSE IF ~opts.has
             THEN Raised(Error("KeyError", ""), node, own, <<>>, checked.log, <<>>)
             ELSE LET conv == convert_args(node, 1, opts.list, d, custom,
                                 [ok |-> TRUE, err |-> NoErr, ctxs |-> own,
                                  replies |-> <<>>, convLog |-> <<>>, args |-> <<>>])
                  IN  IF ~conv.ok
                      THEN Raised(conv.err, node, conv.ctxs, conv.replies,
                                  checked.log, conv.convLog)
                      ELSE [outcome |-> "handler", err |-> NoErr,
                            ctxs |-> conv.ctxs, replies |-> conv.replies,
                            checkLog |-> checked.log, convLog |-> conv.convLog,
                            args |-> conv.args, leaf |-> node]

-----------------------------------------------------------------------------
(* patcher.py: _CommandsPatcher, the router.                               *)

\* The except clause of _process_interaction: a CommandsContext for the
\* event, then bot.dispatch("command_error", context, e). The exception of
\* a context that cannot be made leaves _process_interaction.
except_clause(d, r) ==
    IF ~d.guild_id       \* CommandsContext: ctx_data["guild_id"]
    THEN r @@ [errors |-> <<>>, escaped |-> "KeyError"]
    ELSE [r EXCEPT !.ctxs = Append(@, CommandsContext("error"))]
         @@ [errors |-> <<[ctx |-> Len(r.ctxs) + 1, error |-> r.err]>>,
             escaped |-> NoError]

\* _process_interaction for an application command (data["type"] == 2), up
\* to the call of the handler.
process_interaction(d, custom) ==
    LET r == IF d.name \notin DOMAIN commands
             THEN Raised(Error("CommandNotFound", d.name), NoNode,
                         <<>>, <<>>, <<>>, <<>>)
             ELSE execute(commands[d.name],
                          [has |-> d.has_options, list |-> d.options], d, custom)
    IN  IF r.outcome = "handler"
        THEN r @@ [errors |-> <<>>, escaped |-> NoError]
        ELSE except_clause(d, r)

\* Variant of the router that processes component interactions as well.
is_command_any(message) ==
    /\ message.t = "INTERACTION_CREATE"
    /\ message.d.type \in {2, 3}

\* Whether on_socket_response hands the message to the command processor.
is_command(message) ==
    /\ message.t = "INTERACTION_CREATE"
    /\ message.d.type \in {2, 3}
    /\ message.d.type = 2

NoLog ==
    [routed |-> FALSE, leaf |-> NoNode, checkLog |-> <<>>, convLog |-> <<>>,
     args |-> <<>>, invoked |-> 0, returned |-> FALSE, err |-> NoErr,
     errors |-> <<>>, escaped |-> NoError]

\* on_socket_response(message), to the point where the handler is called
\* or the event is done with.
SocketResponse(message) ==
    /\ pc = "idle"
    /\ nevents < MaxEvents
    /\ nevents' = nevents + 1
    /\ event' = message
    /\ IF ~is_command(message)
       THEN /\ pc' = "idle"
            /\ ctxs' = <<>>
            /\ replies' = <<>>
            /\ log' = NoLog
       ELSE LET r == process_interaction(message.d, app.custom)
            IN  /\ pc' = IF r.outcome = "handler" THEN "handler" ELSE "idle"
                /\ ctxs' = r.ctxs
                /\ replies' = r.replies
                /\ log' = [routed |-> TRUE, leaf |-> r.leaf,
                           checkLog |-> r.checkLog, convLog |-> r.convLog,
                           args |-> r.args,
                           invoked |-> IF r.outcome = "handler" THEN 1 ELSE 0,
                           returned |-> FALSE, err |-> r.err,
                           errors |-> r.errors, escaped |-> r.escaped]
    /\ UNCHANGED <<bot, app, gateway, regVars>>

\* Who holds context c now: the running handler its own, the command_error
\* listeners theirs once the event was dispatched.
Holds(c) ==
    \/ ctxs[c].role = "exec" /\ pc = "handler"
    \/ ctxs[c].role = "error" /\ pc = "idle"

CallsOn(c) == {k \in DOMAIN replies : replies[k].ctx = c}

Suspended(c) == {k \in CallsOn(c) : replies[k].st = "inflight"}

\* ctx.ephemeral = True
SetEphemeral(c) ==
    /\ Holds(c)
    /\ ~ctxs[c].ephemeral
    /\ CallsOn(c) = {}
    /\ ctxs' = [ctxs EXCEPT ![c].ephemeral = TRUE]
    /\ UNCHANGED <<bot, app, gateway, regVars, nevents, event, pc, replies, log>>

\* ctx.reply(content) is called and runs to its await.
ReplyBegin(c, content, limit) ==
    /\ Holds(c)
    /\ Cardinality(CallsOn(c)) < limit
    /\ replies' = Append(replies,
                     ReplyCall(c, ctxs[c], content, Suspended(c) # {}, "inflight"))
    /\ UNCHANGED <<bot, app, gateway, regVars, nevents, event, pc, ctxs, log>>

\* The request of reply call k comes back, and the call ends.
ReplyEnd(k, ok) ==
    /\ replies[k].st = "inflight"
    /\ replies' = [replies EXCEPT ![k].st = IF ok THEN "ok" ELSE "failed"]
    /\ ctxs' = [ctxs EXCEPT ![replies[k].ctx] = reply_done(@, replies[k].req, ok)]
    /\ UNCHANGED <<bot, app, gateway, regVars, nevents, event, pc, log>>

ExecCtx == CHOOSE c \in DOMAIN ctxs : ctxs[c].role = "exec"

\* await self.handler(ctx, *args) returns.
HandlerReturn ==
    /\ pc = "handler"
    /\ Suspended(ExecCtx) = {}
    /\ pc' = "idle"
    /\ log' = [log EXCEPT !.returned = TRUE]
    /\ UNCHANGED <<bot, app, gateway, regVars, nevents, event, ctxs, replies>>

\* await self.handler(ctx, *args) raises, into the except clause.
HandlerRaise ==
    /\ pc = "handler"
    /\ Suspended(ExecCtx) = {}
    /\ LET r == except_clause(event.d,
                   [err |-> Error("HandlerError", ""), ctxs |-> ctxs])
       IN  /\ ctxs' = r.ctxs
           /\ log' = [log EXCEPT !.err = r.err, !.errors = r.errors,
                                 !.escaped = r.escaped]
    /\ pc' = "idle"
    /\ UNCHANGED <<bot, app, gateway, regVars, nevents, event, replies>>

-----------------------------------------------------------------------------
(* The registry: load and unload.                                          *)

RegFn == "f"     \* the handler function the loaded definitions decorate

RegSig == <<CtxParam, Param("p", "str", Empty)>>

RECURSIVE ItemsOfSize(_, _)
RECURSIVE Forest(_, _, _)

\* The sequences of sub-items for attributes k, k+1, ... of one container
\* that hold n objects in all; the attribute at position k is tagged
\* SubNames[k].
Forest(n, k, len) ==
    IF len = 0 THEN (IF n = 0 THEN {<<>>} ELSE {})
    ELSE UNION {{<<first>> \o rest : first \in ItemsOfSize(SubNames[k], j),
                                     rest \in Forest(n - j, k + 1, len - 1)}
                : j \in 1..n}

\* The decorated objects tagged slash that hold n objects in all.
ItemsOfSize(slash, n) ==
    (IF n = 1 THEN {Handler(slash, RegFn, RegSig)} ELSE {})
    \cup {Container(slash, f) :
            f \in UNION {Forest(n - 1, 1, len) : len \in 0..MaxAttrs}}

\* What the application loads: definitions of up to MaxNodes objects under
\* DeepName, single objects under the other names.
Items ==
    UNION {ItemsOfSize(DeepName, n) : n \in 1..MaxNodes}
    \cup UNION {ItemsOfSize(s, 1) : s \in Names \ {DeepName}}

RegChecks == <<Check("c1", FALSE, TRUE), Check("c2", TRUE, TRUE)>>

\* Depths, below the root, of the coroutine functions of a definition.
RECURSIVE ItemHandlerDepths(_, _)
ItemHandlerDepths(item, d) ==
    IF item.async THEN {d}
    ELSE UNION {ItemHandlerDepths(item.attrs[k], d + 1) : k \in DOMAIN item.attrs}

\* A definition the documented rules accept: a coroutine function, or a
\* container at most one level below the root whose every tagged attribute
\* is acceptable and that has at least one.
RECURSIVE WellFormed(_, _)
WellFormed(item, d) ==
    \/ item.async
    \/ /\ d <= 1
       /\ Len(item.attrs) > 0
       /\ \A k \in DOMAIN item.attrs : WellFormed(item.attrs[k], d + 1)

NoOp == [op |-> "none", name |-> "", wellFormed |-> FALSE, deep |-> FALSE,
         present |-> FALSE, changed |-> FALSE]

\* No message: the socket has delivered nothing yet.
NoMessage ==
    [t |-> "", d |-> [type |-> 0, name |-> "", has_options |-> FALSE,
                      options |-> <<>>, guild_id |-> FALSE]]

Quiet == [replies |-> FALSE, raises |-> FALSE]

\* The router before the first message.
RouterIdle ==
    /\ nevents = 0
    /\ event = NoMessage
    /\ pc = "idle"
    /\ ctxs = <<>>
    /\ replies = <<>>
    /\ log = NoLog

InitRegistry ==
    /\ bot = [checks |-> <<>>, check_once |-> <<>>, cogs |-> <<>>]
    /\ commands = <<>>
    /\ commands_checks = [fn \in {RegFn} |-> RegChecks]
    /\ raised = NoError
    /\ lastLoad = [n \in Names |-> NoItem]
    /\ lastOp = NoOp
    /\ app = [declared |-> RegChecks, custom |-> Quiet, sig |-> RegSig]
    /\ gateway = [first |-> {}, later |-> {}]
    /\ RouterIdle

\* processor.load_command(item)
LoadCommand(item) ==
    LET r == load_command(item)
    IN  /\ commands' = r.commands
        /\ commands_checks' = r.cc
        /\ raised' = r.raised
        /\ lastLoad' = IF r.ok THEN [lastLoad EXCEPT ![item.slash] = item]
                       ELSE lastLoad
        /\ lastOp' = [op |-> "load", name |-> item.slash,
                      wellFormed |-> WellFormed(item, 0),
                      deep |-> \E d \in ItemHandlerDepths(item, 0) : d > 2,
                      present |-> item.slash \in DOMAIN commands,
                      changed |-> lastLoad[item.slash] # item]
        /\ UNCHANGED <<bot, app, gateway, dispVars>>

\* processor.unload_command(name)
UnloadCommand(name) ==
    LET r == unload_command(name)
    IN  /\ commands' = r.commands
        /\ raised' = r.raised
        /\ lastLoad' = IF r.raised = NoError THEN [lastLoad EXCEPT ![name] = NoItem]
                       ELSE lastLoad
        /\ lastOp' = [op |-> "unload", name |-> name, wellFormed |-> FALSE,
                      deep |-> FALSE, present |-> name \in DOMAIN commands,
                      changed |-> FALSE]
        /\ UNCHANGED <<bot, commands_checks, app, gateway, dispVars>>

NextRegistry ==
    \/ \E item \in Items : LoadCommand(item)
    \/ \E name \in Names : UnloadCommand(name)

SpecRegistry == InitRegistry /\ [][NextRegistry]_vars

-----------------------------------------------------------------------------
(* The reply channel of one context held by a handler.                     *)

Contents == {"", "hi"}

InitReply ==
    /\ bot = [checks |-> <<>>, check_once |-> <<>>, cogs |-> <<>>]
    /\ commands = <<>>
    /\ commands_checks = <<>>
    /\ raised = NoError
    /\ lastLoad = [n \in Names |-> NoItem]
    /\ lastOp = NoOp
    /\ app = [declared |-> <<>>, custom |-> Quiet, sig |-> RegSig]
    /\ gateway = [first |-> {}, later |-> {}]
    /\ nevents = 1
    /\ event = NoMessage
    /\ pc = "handler"
    /\ ctxs = <<CommandsContext("exec")>>
    /\ replies = <<>>
    /\ log = [NoLog EXCEPT !.routed = TRUE, !.invoked = 1]

\* Variant of reinvoke that replays the command on a fresh reply state.
reinvoke_replay(ctx, call_hooks, restart) ==
    [ctx |-> [ctx EXCEPT !.first_reply = TRUE], raised |-> NoError,
     requests |-> <<>>]

\* CommandsContext.reinvoke: the context after the call, the exception the
\* call ends with and the requests it issued.
reinvoke(ctx, call_hooks, restart) ==
    [ctx |-> ctx, raised |-> "NotImplementedError", requests |-> <<>>]

\* The calls of reinvoke so far.
Reinvokes == IF lastOp.op = "reinvoke" THEN lastOp.n ELSE 0

\* await ctx.reinvoke(call_hooks=..., restart=...)
Reinvoke(c, call_hooks, restart) ==
    \E r \in {reinvoke(ctxs[c], call_hooks, restart)} :
        /\ Holds(c)
        /\ Reinvokes < MaxReinvokes
        /\ ctxs' = [ctxs EXCEPT ![c] = r.ctx]
        /\ replies' = replies \o r.requests
        /\ raised' = r.raised
        /\ lastOp' = [op |-> "reinvoke", n |-> Reinvokes + 1,
                      first_reply |-> ctxs[c].first_reply,
                      suspended |-> Suspended(c) # {}]
        /\ UNCHANGED <<bot, app, gateway, commands, commands_checks, lastLoad,
                       nevents, event, pc, log>>

NextReply ==
    \/ \E c \in DOMAIN ctxs : SetEphemeral(c)
    \/ \E c \in DOMAIN ctxs, content \in Contents : ReplyBegin(c, content, MaxReplies)
    \/ \E k \in DOMAIN replies, ok \in BOOLEAN : ReplyEnd(k, ok)
    \/ \E c \in DOMAIN ctxs, call_hooks, restart \in BOOLEAN :
          Reinvoke(c, call_hooks, restart)

SpecReply == InitReply /\ [][NextReply]_vars

-----------------------------------------------------------------------------
(* The router: messages from the socket.                                   *)

SeqsUpTo(S, n) == UNION {[1..k -> S] : k \in 0..n}

\* A parameter option of a payload, and a sub-command (group) option.
Opt(name, value) ==
    [name |-> name, type |-> 3, value |-> value,
     has_options |-> FALSE, options |-> <<>>]

Sub(name, type, has_options, options) ==
    [name |-> name, type |-> type, value |-> NoValue,
     has_options |-> has_options, options |-> options]

Message(t, type, name, has_options, options, guild_id, resolved) ==
    [t |-> t,
     d |-> [type |-> type, name |-> name, has_options |-> has_options,
            options |-> options, guild_id |-> guild_id, resolved |-> resolved]]

RawValues == {"123", "999"}

OptNames == <<"o1", "o2", "o3", "o4">>

ResolvedFull ==
    [users |-> {"123"}, members |-> {"123"}, roles |-> {"123"},
     channels |-> ("123" :> [same_guild |-> TRUE, type |-> 0])]

ResolvedUsers ==
    [users |-> {"123"}, members |-> {}, roles |-> {}, channels |-> <<>>]

LeafOptions ==
    {[i \in DOMAIN vs |-> Opt(OptNames[i], vs[i])] :
        vs \in SeqsUpTo(RawValues \cup {NoValue}, MaxOptions)}

\* Payloads for the root command "a", for the group "b" with its
\* sub-command "x", and messages that name or are something else.
ArgMessages ==
    {Message("INTERACTION_CREATE", 2, "a", TRUE, lo, g, res) :
        lo \in LeafOptions, g \in BOOLEAN, res \in {ResolvedFull, ResolvedUsers}}
    \cup {Message("INTERACTION_CREATE", 2, "b", TRUE,
                  <<Sub("x", 1, TRUE, lo)>>, TRUE, ResolvedFull) : lo \in LeafOptions}
    \cup {Message("INTERACTION_CREATE", 2, "b", TRUE, subs, TRUE, ResolvedFull) :
            subs \in {<<>>, <<Sub("x", 3, TRUE, <<>>)>>, <<Sub("q", 1, TRUE, <<>>)>>,
                      <<Sub("x", 2, FALSE, <<>>)>>,
                      <<Sub("x", 1, TRUE, <<>>), Sub("x", 1, TRUE, <<>>)>>}}
    \cup {Message("INTERACTION_CREATE", 2, "a", FALSE, <<>>, TRUE, ResolvedFull),
          Message("INTERACTION_CREATE", 2, "b", FALSE, <<>>, TRUE, ResolvedFull),
          Message("INTERACTION_CREATE", 2, "zz", TRUE, <<>>, TRUE, ResolvedFull),
          Message("INTERACTION_CREATE", 2, "zz", TRUE, <<>>, FALSE, ResolvedFull),
          Message("INTERACTION_CREATE", 3, "a", TRUE, <<>>, TRUE, ResolvedFull),
          Message("INTERACTION_CREATE", 1, "a", TRUE, <<>>, TRUE, ResolvedFull),
          Message("MESSAGE_CREATE", 2, "a", TRUE, <<>>, TRUE, ResolvedFull)}

CheckMessages ==
    {Message("INTERACTION_CREATE", 2, "a", TRUE, <<Opt("o1", "123")>>, TRUE,
             ResolvedFull)}

\* What the socket delivers after the first message.
LaterMessages ==
    {Message("INTERACTION_CREATE", 2, "a", TRUE, <<Opt("o1", "123")>>, TRUE,
             ResolvedFull),
     Message("INTERACTION_CREATE", 2, "zz", TRUE, <<>>, TRUE, ResolvedFull)}

\* Signatures of the handlers.
SigNone == <<CtxParam>>
SigStr == <<CtxParam, Param("p", "str", Empty)>>
SigPair == <<CtxParam, Param("m", "Member", Empty), Param("n", "int", Empty)>>
SigUser == <<CtxParam, Param("u", "User", Empty)>>
SigCustom == <<CtxParam, Param("q", "Custom", Empty)>>
SigDefault == <<CtxParam, Param("p", "str", Empty), Param("q", "str", "dflt")>>
SigsEntity ==
    {<<CtxParam, Param("e", ann, Empty)>> :
        ann \in {"Member", "TextChannel", "CategoryChannel", "Role"}}
SigsTyping ==
    {<<CtxParam, Param("p", ann, default)>> :
        ann \in DOMAIN UnionArgs, default \in {Empty, "dflt"}}

\* Lists of up to n checks named ids[1], ids[2], ..., each a coroutine
\* function or not, each accepting or rejecting.
CheckLists(ids, n) ==
    UNION {{[i \in 1..k |-> Check(ids[i], f[i].co, f[i].ret)] :
              f \in [1..k -> [co : BOOLEAN, ret : BOOLEAN]]} : k \in 0..n}

HandlerCheckIds == <<"h1", "h2", "h3", "h4">>

\* What the application registered and what the socket may deliver: the
\* handlers' signature, the checks, the custom converter's behaviour.
Scenario(sig, checks, once, declared, custom, msgs) ==
    [sig |-> sig,
     bot |-> [checks |-> checks, check_once |-> once, cogs |-> <<>>],
     declared |-> declared, custom |-> custom,
     gateway |-> [first |-> msgs, later |-> LaterMessages]]

Scenarios ==
    {Scenario(sig, <<>>, <<>>, <<>>, Quiet, ArgMessages) :
        sig \in {SigNone, SigStr, SigPair, SigUser, SigDefault}
                  \cup SigsEntity \cup SigsTyping}
    \cup {Scenario(SigCustom, <<>>, <<>>, <<>>, cu, ArgMessages) :
            cu \in [replies : BOOLEAN, raises : BOOLEAN]}
    \cup {Scenario(SigStr, cs, co, de, Quiet, CheckMessages) :
            cs \in CheckLists(<<"b1">>, 1), co \in CheckLists(<<"o1">>, 1),
            de \in CheckLists(HandlerCheckIds, 1)}
    \cup {Scenario(SigStr, <<>>, <<>>, de, Quiet, CheckMessages) :
            de \in CheckLists(HandlerCheckIds, MaxChecks)}

\* The bot after commands_init and the loading of the root command "a"
\* (handler f) and of the group "b" with the sub-command "x" (handler g).
Init ==
    \E sc \in Scenarios :
        /\ bot = sc.bot
        /\ app = [declared |-> sc.declared, custom |-> sc.custom, sig |-> sc.sig]
        /\ gateway = sc.gateway
        /\ \E A \in {create_command("a", Handler("a", "f", sc.sig), 0,
                      [fn \in {"f", "g"} |-> IF fn = "f" THEN sc.declared ELSE <<>>])} :
           \E B \in {create_command("b",
                      Container("b", <<Handler("x", "g", sc.sig)>>), 0, A.cc)} :
               /\ commands = (IF A.ok THEN "a" :> A.node ELSE <<>>)
                             @@ (IF B.ok THEN "b" :> B.node ELSE <<>>)
               /\ commands_checks = B.cc
               /\ raised = IF ~A.ok THEN A.err ELSE B.err
        /\ lastLoad = [n \in Names |-> NoItem]
        /\ lastOp = NoOp
        /\ RouterIdle

Next ==
    \/ \E message \in (IF nevents = 0 THEN gateway.first ELSE gateway.later) :
          SocketResponse(message)
    \/ \E c \in DOMAIN ctxs :
          Suspended(c) = {} /\ ReplyBegin(c, "hi", MaxHookReplies)
    \/ \E k \in DOMAIN replies, ok \in BOOLEAN : ReplyEnd(k, ok)
    \/ HandlerReturn
    \/ HandlerRaise

Spec == Init /\ [][Next]_vars

-----------------------------------------------------------------------------
(* Properties of the registry.                                             *)

\* The nodes of a command tree.
RECURSIVE NodesOf(_)
NodesOf(node) ==
    {node} \cup UNION {NodesOf(node.children[c]) : c \in DOMAIN node.children}

RegistryNodes == UNION {NodesOf(commands[n]) : n \in DOMAIN commands}

\* Depths, below the root, of the nodes of a tree that have a handler.
RECURSIVE HandlerDepths(_, _)
HandlerDepths(node, d) ==
    (IF node.handler # NoHandler THEN {d} ELSE {})
    \cup UNION {HandlerDepths(node.children[c], d + 1) : c \in DOMAIN node.children}

\* The tree a definition stands for: names, handlers and children.
RECURSIVE ItemShape(_)
ItemShape(item) ==
    [name |-> item.slash,
     handler |-> item.fn,
     children |-> {ItemShape(item.attrs[k]) : k \in DOMAIN item.attrs}]

RECURSIVE NodeShape(_)
NodeShape(node) ==
    [name |-> node.name,
     handler |-> node.handler,
     children |-> {NodeShape(node.children[c]) : c \in DOMAIN node.children}]

\* C8: after any sequence of loads and unloads, every node reachable from
\* the registry has a handler and no children, or no handler and at least
\* one child.
C8_HandlerXorChildren ==
    \A nd \in RegistryNodes :
        (nd.handler # NoHandler) # (DOMAIN nd.children # {})

\* C8 witness: the registry holds a root with a group that has a sub-command.
C8_Witness ==
    \E n \in DOMAIN commands : \E g \in DOMAIN commands[n].children :
        /\ commands[n].handler = NoHandler
        /\ commands[n].children[g].handler = NoHandler
        /\ \E h \in DOMAIN commands[n].children[g].children :
              commands[n].children[g].children[h].handler # NoHandler

\* C9: every handler of every registered tree is at depth at most 2, and a
\* load of a definition with a handler at depth 3 ends with a construction
\* error and leaves no tree of that definition in the registry.
C9_DepthBound ==
    /\ \A n \in DOMAIN commands : \A d \in HandlerDepths(commands[n], 0) : d <= 2
    /\ (lastOp.op = "load" /\ lastOp.deep) =>
          /\ raised \in {"RecursionError", "TypeError"}
          /\ \/ lastLoad[lastOp.name] = NoItem
             \/ \A d \in ItemHandlerDepths(lastLoad[lastOp.name], 0) : d <= 2

\* C9 witness: a definition with a handler at depth 3 was just refused while
\* the registry holds a tree with a handler at depth 2.
C9_Witness ==
    /\ lastOp.op = "load" /\ lastOp.deep /\ raised = "RecursionError"
    /\ \E n \in DOMAIN commands : 2 \in HandlerDepths(commands[n], 0)

\* C10: resolving a name yields the tree of the most recent successful load
\* under that name unless an unload of the name followed it, and nothing
\* otherwise; a load of an acceptable definition succeeds also when its
\* name is already in the registry.
C10_ResolveLatest ==
    /\ \A n \in Names :
          IF lastLoad[n] = NoItem THEN n \notin DOMAIN commands
          ELSE /\ n \in DOMAIN commands
               /\ NodeShape(commands[n]) = ItemShape(lastLoad[n])
    /\ (lastOp.op = "load" /\ lastOp.wellFormed) =>
          /\ raised = NoError
          /\ lastOp.name \in DOMAIN commands

\* C10 witness: a load has just replaced a different tree under its name,
\* and another name was unloaded before.
C10_Witness ==
    /\ lastOp.op = "load" /\ lastOp.present /\ lastOp.changed
    /\ raised = NoError
    /\ \E n \in Names : n # lastOp.name /\ n \notin DOMAIN commands

-----------------------------------------------------------------------------
(* Properties of the reply channel.                                        *)

\* Reply call k on its context came after calls that each ended well
\* before the next began.
Sequential(k) ==
    \A j \in CallsOn(replies[k].ctx) :
        j <= k => /\ ~replies[j].overlap
                  /\ j < k => replies[j].st = "ok"

FirstOn(k) == \A j \in CallsOn(replies[k].ctx) : j >= k

\* C1: of reply calls made one after the other on a context, each request
\* succeeding, the first issues the initial callback (type 4) and every
\* later one a follow-up message send, whatever the content.
C1_FirstThenFollowups ==
    \A k \in DOMAIN replies :
        Sequential(k) =>
            IF FirstOn(k)
            THEN replies[k].req = "callback" /\ replies[k].type = 4
            ELSE replies[k].req = "followup"

\* C1 witness: three replies on one context, one after the other, all of
\* them successful, the last two with different contents.
C1_Witness ==
    \E k \in DOMAIN replies :
        /\ Sequential(k) /\ replies[k].st = "ok"
        /\ Cardinality({j \in CallsOn(replies[k].ctx) : j < k}) >= 2
        /\ \E j \in CallsOn(replies[k].ctx) :
              j < k /\ ~FirstOn(j) /\ replies[j].content # replies[k].content

-----------------------------------------------------------------------------
(* Properties of the router.                                               *)

\* The initial-callback requests of the event that the service answered
\* or has yet to answer.
Callbacks == {k \in DOMAIN replies :
                 replies[k].req = "callback" /\ replies[k].st # "failed"}

\* C2: over the handling of one event at most one initial-callback request
\* is issued for its token, counting the replies of the handler, of custom
\* converters and of a command_error listener.
C2_OneCallbackPerEvent == Cardinality(Callbacks) <= 1

\* C3: no exception leaves _process_interaction and on_socket_response.
C3_NothingEscapes == log.escaped = NoError

\* C4: a routed command that is done with either invoked its handler once,
\* which returned, with no command_error event, or it dispatched exactly
\* one command_error event.
C4_OneOutcome ==
    (log.routed /\ pc = "idle") =>
        \/ log.invoked = 1 /\ log.returned /\ log.errors = <<>>
        \/ Len(log.errors) = 1

\* C5: every option of the payload that was converted was converted by the
\* converter resolved for the parameter at its own position.
C5_OwnConverter ==
    \A i \in DOMAIN log.convLog :
        log.convLog[i].func =
            log.leaf.cells[log.convLog[i].index].converter_function

\* Whether the checks of the leaf were run for the event: the leaf was
\* found and its context was made.
ChecksRan == log.routed /\ log.leaf # NoNode /\ event.d.guild_id

\* C6: when a check of the command rejects the context, the one
\* command_error event carries a CheckFailure naming the command, no
\* converter ran and the handler was not invoked.
C6_RejectedByAnyCheck ==
    (ChecksRan /\ \E i \in DOMAIN log.leaf.listed : ~log.leaf.listed[i].ret) =>
        /\ Len(log.errors) = 1
        /\ log.errors[1].error = Error("CheckFailure", log.leaf.name)
        /\ log.convLog = <<>>
        /\ log.invoked = 0

\* The order the checks of the handler f are due in: the bot's checks, its
\* check-once checks, the handler's own from the last declared to the first.
DueChecks == bot.checks \o bot.check_once \o Reverse(app.declared)

\* The checks due up to and including the first that rejects.
DueUntilRejected ==
    LET rejecting == {i \in DOMAIN DueChecks : ~DueChecks[i].ret}
        last == IF rejecting = {} THEN Len(DueChecks)
                ELSE CHOOSE i \in rejecting : \A j \in rejecting : i <= j
    IN  [i \in 1..last |-> DueChecks[i].id]

\* C7: the checks evaluated for an event are the due ones in their order,
\* up to and including the first that rejects.
C7_CheckOrder ==
    (ChecksRan /\ log.leaf.handler = "f") => log.checkLog = DueUntilRejected

-----------------------------------------------------------------------------
(* Properties of unload.                                                   *)

\* C11: an unload of a name that is not in the registry raises no error
\* (and leaves the registry as it was).
C11_UnloadAbsentSilent ==
    (lastOp.op = "unload" /\ ~lastOp.present) => raised = NoError

-----------------------------------------------------------------------------
(* patcher.py: the patched Bot.add_cog and Bot.remove_cog.                 *)

CogNames == {"a", "K"}     \* names the bot keeps cogs under

NoSlash == ""              \* getattr(cog, "_slash", False) is False

\* A cog: its cog name, its own _slash if it is tagged, and its attributes
\* tagged with _slash in __dir__() order.
Cog(cog_name, slash, members) ==
    [cog_name |-> cog_name, slash |-> slash, members |-> members]

NoCog == Cog("", NoSlash, <<>>)

\* processor.load_command on items[k], items[k + 1], ... in turn; an
\* exception ends the loop.
RECURSIVE load_each(_, _, _, _)
load_each(items, k, reg, cc) ==
    IF k > Len(items) THEN [commands |-> reg, cc |-> cc, raised |-> NoError]
    ELSE LET assign(built) ==
                 IF ~built.ok
                 THEN [commands |-> reg, cc |-> built.cc, raised |-> built.err]
                 ELSE load_each(items, k + 1,
                                (items[k].slash :> built.node) @@ reg, built.cc)
         IN  assign(create_command(items[k].slash, items[k], 0, cc))

\* processor.unload_command on names[k], names[k + 1], ... in turn.
RECURSIVE unload_each(_, _, _)
unload_each(names, k, reg) ==
    IF k > Len(names) THEN [commands |-> reg, raised |-> NoError]
    ELSE IF names[k] \notin DOMAIN reg
    THEN [commands |-> reg, raised |-> "KeyError"]
    ELSE unload_each(names, k + 1,
                     [n \in DOMAIN reg \ {names[k]} |-> reg[n]])

\* patched_load_cog: the cog itself is loaded if it is tagged, its tagged
\* attributes otherwise; then Bot.add_cog, which ends with the exception
\* host (or none), keeps the cog under its name.
patched_load_cog(cog, host) ==
    LET original_load_cog(r) ==
            IF r.raised # NoError THEN r @@ [cogs |-> bot.cogs]
            ELSE [r EXCEPT !.raised = host]
                 @@ [cogs |-> IF host = NoError
                              THEN (cog.cog_name :> cog) @@ bot.cogs
                              ELSE bot.cogs]
    IN  original_load_cog(
            load_each(IF cog.slash # NoSlash
                      THEN <<Container(cog.slash, cog.members)>>
                      ELSE cog.members,
                      1, commands, commands_checks))

\* patched_remove_cog: for a tagged cog unload_command(name) with the name
\* the cog is kept under; otherwise the scan, which leaves in name the
\* _slash of the last attribute of __dir__(), False, so that the closing
\* Bot.remove_cog(bot, name) finds no cog.
patched_remove_cog(name) ==
    IF name \notin DOMAIN bot.cogs
    THEN [commands |-> commands, raised |-> NoError, cogs |-> bot.cogs]
    ELSE LET cog == bot.cogs[name]
             r == IF cog.slash # NoSlash
                  THEN unload_each(<<name>>, 1, commands)
                  ELSE unload_each([k \in DOMAIN cog.members |->
                                       cog.members[k].slash], 1, commands)
         IN  r @@ [cogs |-> IF r.raised = NoError /\ cog.slash # NoSlash
                            THEN [n \in DOMAIN bot.cogs \ {name} |-> bot.cogs[n]]
                            ELSE bot.cogs]

\* The slash names a cog carries.
Carried(cog) ==
    IF cog.slash # NoSlash THEN {cog.slash}
    ELSE {cog.members[k].slash : k \in DOMAIN cog.members}

\* The calls of add_cog and remove_cog so far.
CogOps == IF lastOp.op \in {"add_cog", "remove_cog"} THEN lastOp.n ELSE 0

\* bot.add_cog(cog)
AddCog(cog, host) ==
    \E r \in {patched_load_cog(cog, host)} :
        /\ CogOps < MaxCogOps
        /\ commands' = r.commands
        /\ commands_checks' = r.cc
        /\ raised' = r.raised
        /\ bot' = [bot EXCEPT !.cogs = r.cogs]
        /\ lastOp' = [op |-> "add_cog", name |-> cog.cog_name, cog |-> cog,
                      n |-> CogOps + 1, before |-> DOMAIN commands,
                      host |-> host, kept |-> r.commands = commands]
        /\ UNCHANGED <<lastLoad, app, gateway, dispVars>>

\* bot.remove_cog(name)
RemoveCog(name) ==
    LET r == patched_remove_cog(name)
        afterAdd == /\ lastOp.op = "add_cog" /\ lastOp.name = name
                    /\ raised = NoError
    IN  /\ CogOps < MaxCogOps
        /\ commands' = r.commands
        /\ raised' = r.raised
        /\ bot' = [bot EXCEPT !.cogs = r.cogs]
        /\ lastOp' = [op |-> "remove_cog", name |-> name, n |-> CogOps + 1,
                      afterAdd |-> afterAdd,
                      cog |-> IF afterAdd THEN lastOp.cog ELSE NoCog,
                      before |-> IF afterAdd THEN lastOp.before ELSE {}]
        /\ UNCHANGED <<commands_checks, lastLoad, app, gateway, dispVars>>

\* The cogs the application has: tagged or not, with up to MaxMembers
\* tagged coroutine functions.
CogSlashes == {"a", "b"}

Members ==
    UNION {[1..k -> {Handler(s, RegFn, RegSig) : s \in CogSlashes}] :
             k \in 0..MaxMembers}

\* A signature whose first parameter is annotated with a type that is not
\* a context.
SigBadCtx == <<Param("ctx", "int", Empty)>>

\* Members the last of which, tagged "b", has such a signature.
FaultyMembers ==
    {[i \in 1..k |-> IF i < k THEN Handler("a", RegFn, RegSig)
                     ELSE Handler("b", RegFn, SigBadCtx)] : k \in 1..MaxMembers}

\* What the host's own add_cog may end with: nothing, or its TypeError for
\* an object that does not derive from Cog.
HostOutcomes == {NoError, "TypeError"}

Cogs ==
    {Cog(n, s, ms) : n \in CogNames, s \in CogSlashes \cup {NoSlash}, ms \in Members}
    \cup {Cog("K", s, ms) : s \in {"a", NoSlash}, ms \in FaultyMembers}

NextCogs ==
    \/ \E cog \in Cogs, host \in HostOutcomes : AddCog(cog, host)
    \/ \E name \in CogNames : RemoveCog(name)

SpecCogs == InitRegistry /\ [][NextCogs]_vars

\* Whether the members of a cog carry different slash names.
DistinctMembers(cog) ==
    \A j, k \in DOMAIN cog.members :
        cog.members[j].slash = cog.members[k].slash => j = k

\* C12: a cog that was registered, carrying names the registry did not
\* hold, and is unregistered next by its cog name: the unregistration
\* raises no error and the registry holds the names it held before the
\* registration.
C12_AddThenRemoveRestores ==
    (/\ lastOp.op = "remove_cog" /\ lastOp.afterAdd
     /\ Carried(lastOp.cog) \cap lastOp.before = {}
     /\ DistinctMembers(lastOp.cog))
        => /\ raised = NoError
           /\ DOMAIN commands = lastOp.before

-----------------------------------------------------------------------------
(* Properties of the router: lookup, walk, conversion.                     *)

\* C13: an application-command event whose command name is not in the
\* registry is reported by one command_error event that carries
\* CommandNotFound; no node is executed, no check and no converter runs
\* and no handler is invoked.
C13_UnknownNameReported ==
    (log.routed /\ event.d.name \notin DOMAIN commands) =>
        /\ Len(log.errors) = 1
        /\ log.errors[1].error = Error("CommandNotFound", event.d.name)
        /\ log.leaf = NoNode
        /\ log.checkLog = <<>>
        /\ log.convLog = <<>>
        /\ log.invoked = 0

\* The handler f takes a parameter annotated ann.
Declares(anns) == \E i \in DOMAIN app.sig : app.sig[i].ann \in anns

\* The event is an application command for the root command "a", with a
\* guild, and the checks of the command passed.
RootEvent ==
    /\ log.routed /\ event.d.name = "a" /\ event.d.guild_id
    /\ log.leaf # NoNode
    /\ ~(Len(log.errors) = 1 /\ log.errors[1].error.type = "CheckFailure")

\* What the handler is due for a parameter whose option is absent.
DefaultOf(param) ==
    IF param.default = Empty THEN Value("None", "")
    ELSE Value("default", param.default)

\* C14: a handler with a parameter declared Optional[T] is registered, and
\* an event whose options list omits the option invokes the handler with
\* the parameter's default, or None.
C14_OptionalOmitted ==
    Declares({"Optional[int]", "Optional[Object]"}) =>
        /\ raised = NoError
        /\ "a" \in DOMAIN commands
        /\ (/\ RootEvent /\ pc = "idle"
            /\ ~event.d.has_options \/ event.d.options = <<>>)
              => /\ log.invoked = 1
                 /\ log.args = <<DefaultOf(app.sig[2])>>

\* C15: when the handler's parameters are all plain strings and the event
\* carries an option for each, an option without a value fails the
\* conversion with BadArgument, the handler not invoked, if its own
\* parameter is required; otherwise every parameter without a value gets
\* its own default, or None, and the others their values.
C15_OwnRequiredAndDefault ==
    (/\ RootEvent
     /\ event.d.has_options
     /\ Len(event.d.options) >= Len(log.leaf.cells)
     /\ \A i \in DOMAIN log.leaf.cells :
           log.leaf.cells[i].converter_function = "_nothing_converter")
        => IF \E i \in DOMAIN log.leaf.cells :
                 event.d.options[i].value = NoValue /\ log.leaf.args[i].required
           THEN /\ Len(log.errors) = 1
                /\ log.errors[1].error.type = "BadArgument"
                /\ log.invoked = 0
           ELSE /\ log.invoked = 1
                /\ log.args =
                     [i \in DOMAIN log.leaf.cells |->
                        IF event.d.options[i].value = NoValue
                        THEN DefaultOf(app.sig[i + 1])
                        ELSE Value("raw", event.d.options[i].value)]

\* C16: a handler with a parameter declared Union[int, str] is registered,
\* and a raw value that parses as an integer reaches the handler as that
\* integer.
C16_UnionIntStr ==
    Declares({"Union[int, str]"}) =>
        /\ raised = NoError
        /\ "a" \in DOMAIN commands
        /\ (/\ RootEvent
            /\ event.d.has_options /\ Len(event.d.options) = 1
            /\ event.d.options[1].value \in RawValues)
              => /\ log.invoked = 1
                 /\ log.args = <<Value("int", event.d.options[1].value)>>

\* The ids of the section of the resolved table a converter looks into.
Section(func, resolved) ==
    CASE func = "_user_converter" -> resolved.users
      [] func = "_member_converter" -> resolved.members
      [] func = "_text_channel_converter" -> DOMAIN resolved.channels
      [] func = "_category_channel_converter" -> DOMAIN resolved.channels
      [] func = "_role_converter" -> resolved.roles

EntityConverters ==
    {"_user_converter", "_member_converter", "_text_channel_converter",
     "_category_channel_converter", "_role_converter"}

\* The event gave the one entity parameter of the handler a raw id that
\* the matching section of its resolved table does not hold.
UnresolvedId ==
    /\ RootEvent
    /\ Len(log.leaf.cells) = 1
    /\ log.leaf.cells[1].converter_function \in EntityConverters
    /\ event.d.has_options /\ Len(event.d.options) >= 1
    /\ event.d.options[1].value \in RawValues
    /\ event.d.options[1].value \notin
          Section(log.leaf.cells[1].converter_function, event.d.resolved)

\* C17: a raw id without an entry in the matching section of the resolved
\* table fails the conversion with BadArgument, reported by one
\* command_error event, and the handler is not invoked.
C17_UnresolvedIsBadArgument ==
    UnresolvedId =>
        /\ Len(log.errors) = 1
        /\ log.errors[1].error.type = "BadArgument"
        /\ log.invoked = 0

\* The event is an application command for the group "b", a node without
\* a handler, and carries an options list.
GroupEvent ==
    /\ log.routed /\ event.d.name = "b" /\ "b" \in DOMAIN commands
    /\ event.d.has_options

\* The options list does not name one child of the node.
NotOneChild(node, options) ==
    \/ Len(options) # 1
    \/ options[1].type \notin {1, 2}
    \/ options[1].name \notin DOMAIN node.children

\* C18: executing a node without a handler on an options list that does
\* not name one child by an option of type 1 or 2 fails with BadArgument,
\* no handler invoked; otherwise the child of that name is executed on the
\* option's nested options, and its handler is invoked with the values of
\* its (plain string) parameters.
C18_WalkToChild ==
    GroupEvent =>
        IF NotOneChild(commands["b"], event.d.options)
        THEN /\ log.err.type = "BadArgument"
             /\ log.leaf = NoNode
             /\ log.invoked = 0
        ELSE LET option == event.d.options[1]
                 child == commands["b"].children[option.name]
             IN  /\ log.leaf = child
                 /\ (/\ event.d.guild_id
                     /\ Len(option.options) = Len(child.cells)
                     /\ \A i \in DOMAIN child.cells :
                           /\ child.cells[i].converter_function = "_nothing_converter"
                           /\ option.options[i].value # NoValue)
                       => /\ log.invoked = 1
                          /\ log.args = [i \in DOMAIN child.cells |->
                                           Value("raw", option.options[i].value)]

\* Nothing was done for the event: no lookup that led to a node, no check,
\* no conversion, no handler, no command_error, no exception, no reply.
Untouched ==
    /\ ~log.routed
    /\ log.leaf = NoNode /\ log.err = NoErr
    /\ log.checkLog = <<>> /\ log.convLog = <<>>
    /\ log.invoked = 0
    /\ log.errors = <<>> /\ log.escaped = NoError
    /\ ctxs = <<>> /\ replies = <<>>
    /\ pc = "idle"

\* C19: a message that is not an INTERACTION_CREATE event of interaction
\* type 2 (another event, another interaction type, a component
\* interaction of type 3) has nothing done for it and leaves the registry
\* as it was.
C19_OnlyCommandsDispatched ==
    [][(/\ nevents' = nevents + 1
        /\ ~(event'.t = "INTERACTION_CREATE" /\ event'.d.type = 2))
          => /\ Untouched'
             /\ commands' = commands
             /\ commands_checks' = commands_checks]_vars

\* C19 witness: the socket delivered a component interaction (type 3), or
\* a message of another event type, that names a registered command, and
\* nothing was done for it.
C19_Witness ==
    /\ nevents >= 1
    /\ event.d.name \in DOMAIN commands
    /\ \/ event.t = "INTERACTION_CREATE" /\ event.d.type = 3
       \/ event.t = "MESSAGE_CREATE" /\ event.d.type = 2
    /\ Untouched

-----------------------------------------------------------------------------
(* Properties of reinvoke.                                                 *)

\* C20: every call of reinvoke ends with NotImplementedError, issues no
\* request and leaves the contexts, their reply state included, as they
\* were.
C20_ReinvokeFails ==
    [][(lastOp'.op = "reinvoke" /\ lastOp' # lastOp)
          => /\ raised' = "NotImplementedError"
             /\ replies' = replies
             /\ ctxs' = ctxs]_vars

\* C20 witness: reinvoke was called twice, the second time on a context
\* whose first reply had been sent.
C20_Witness ==
    /\ lastOp.op = "reinvoke" /\ lastOp.n = 2
    /\ ~lastOp.first_reply
    /\ raised = "NotImplementedError"
    /\ \E k \in DOMAIN replies : replies[k].req = "callback" /\ replies[k].st = "ok"

-----------------------------------------------------------------------------
(* Properties of the reply channel: failed and overlapping calls.          *)

\* The calls on context c that issued an initial-callback request.
CallbacksOn(c) == {k \in CallsOn(c) : replies[k].req = "callback"}

\* The calls on context c came one after the other: none began while
\* another was suspended.
OneAtATime(c) == \A k \in CallsOn(c) : ~replies[k].overlap

\* C21: of reply calls made one after the other on a context, only the
\* first issues an initial-callback request, also when the request of the
\* first failed: a call after it issues a follow-up.
C21_FailedFirstNoRetry ==
    \A c \in DOMAIN ctxs :
        OneAtATime(c) =>
            \A k \in CallbacksOn(c) : \A j \in CallsOn(c) : j >= k

\* C22: of reply calls on a context whose requests all succeed or are still
\* awaited, calls that began while another was suspended included, at most
\* one issues an initial-callback request.
C22_OneCallbackWhenConcurrent ==
    \A c \in DOMAIN ctxs :
        (\A k \in CallsOn(c) : replies[k].st # "failed") =>
            Cardinality(CallbacksOn(c)) <= 1

-----------------------------------------------------------------------------
(* Properties of the checks across loads.                                  *)

\* C23: however many times the handler was loaded, its declared check list
\* is as it was declared, and every node made for it evaluates the bot's
\* checks and then the handler's own from the last declared to the first.
C23_LoadOrderStable ==
    /\ commands_checks[RegFn] = RegChecks
    /\ \A nd \in RegistryNodes :
          nd.handler = RegFn =>
              nd.listed = bot.checks \o bot.check_once \o Reverse(RegChecks)

-----------------------------------------------------------------------------
(* Properties of failed registrations.                                     *)

\* C24: after a registration of a cog that ended with an error, none of the
\* names the cog carries and the registry did not hold before is in the
\* registry; and when it was the one load of a tagged cog that failed,
\* the registry is exactly as it was before the call.
C24_FailedRegistrationLeavesNothing ==
    (lastOp.op = "add_cog" /\ raised # NoError) =>
        /\ (Carried(lastOp.cog) \ lastOp.before) \cap DOMAIN commands = {}
        /\ (lastOp.cog.slash # NoSlash /\ lastOp.host = NoError) => lastOp.kept

-----------------------------------------------------------------------------
(* patcher.py: serializing the registry for bulk registration.             *)

AttributeErrorResult == [ok |-> FALSE, err |-> "AttributeError"]

\* enumerate(cmd.children): iterating the dict yields its keys, so the
\* pairs are (position, key). SubNames gives the keys their order.
enumerate_children(cmd) ==
    LET keys == {k \in DOMAIN SubNames : SubNames[k] \in DOMAIN cmd.children}
        nth(i) == CHOOSE k \in keys : Cardinality({j \in keys : j < k}) = i
    IN  [i \in 1..Cardinality(keys) |->
            [name |-> i - 1, child |-> SubNames[nth(i - 1)]]]

\* _cmd_to_dict (descriptions left out): a node with a handler gives its
\* name and its argument list; for any other node the loop over the pairs
\* of enumerate reads child.handler, child being a key of the dict, a str.
cmd_to_dict(cmd) ==
    IF cmd.handler # NoHandler
    THEN [ok |-> TRUE, err |-> NoError,
          entry |-> [name |-> cmd.name, options |-> cmd.args]]
    ELSE IF enumerate_children(cmd) # <<>>
    THEN AttributeErrorResult
    ELSE [ok |-> TRUE, err |-> NoError,
          entry |-> [name |-> cmd.name, options |-> <<>>]]

\* update_commands_list: the body of the PUT request, an entry per
\* registered command (kept by command name), or the exception of the
\* first _cmd_to_dict that raised and no request.
update_commands_list ==
    IF \E n \in DOMAIN commands : ~cmd_to_dict(commands[n]).ok
    THEN [raised |-> "AttributeError", sent |-> FALSE, put |-> <<>>]
    ELSE [raised |-> NoError, sent |-> TRUE,
          put |-> [n \in DOMAIN commands |-> cmd_to_dict(commands[n]).entry]]

\* await update_commands_list(bot)
UpdateCommandsList ==
    \E r \in {update_commands_list} :
        /\ raised' = r.raised
        /\ lastOp' = [op |-> "update_commands_list", name |-> "",
                      sent |-> r.sent, put |-> r.put]
        /\ UNCHANGED <<bot, commands, commands_checks, lastLoad, app, gateway,
                       dispVars>>

NextPublish ==
    \/ \E item \in Items : LoadCommand(item)
    \/ UpdateCommandsList

SpecPublish == InitRegistry /\ [][NextPublish]_vars

\* The entry of a child: type 1 with the argument list for a sub-command,
\* type 2 with the entries of its children for a group.
RECURSIVE ChildEntry(_)
ChildEntry(node) ==
    [type |-> IF node.handler # NoHandler THEN 1 ELSE 2,
     name |-> node.name,
     options |-> IF node.handler # NoHandler THEN node.args
                 ELSE [c \in DOMAIN node.children |-> ChildEntry(node.children[c])]]

\* The entry of a registered tree.
RootEntry(node) ==
    [name |-> node.name,
     options |-> IF node.handler # NoHandler THEN node.args
                 ELSE [c \in DOMAIN node.children |-> ChildEntry(node.children[c])]]

\* C25: serializing the registry succeeds, and the request carries for
\* every registered tree an entry with its name and options: the argument
\* list of a leaf with type-ids 3 to 9, and for every child an entry with
\* the child's own name, of type 1 for a sub-command and 2 for a group.
C25_SerializesEveryTree ==
    lastOp.op = "update_commands_list" =>
        /\ raised = NoError
        /\ lastOp.sent
        /\ DOMAIN lastOp.put = DOMAIN commands
        /\ \A n \in DOMAIN commands :
              /\ lastOp.put[n].name = RootEntry(commands[n]).name
              /\ lastOp.put[n].options = RootEntry(commands[n]).options
        /\ \A nd \in RegistryNodes : \A i \in DOMAIN nd.args :
              nd.args[i].type \in 3..9

====
